---- MODULE Spec2Model ----
(***************************************************************************)
(* Model of the ushell RTIC blinky firmware (src/src/main.rs).             *)
(*                                                                         *)
(* Two interrupt handlers share blink_enabled and blink_timer:             *)
(*   blink_timer_tick  (TIM16,  priority 2) drives the LED;                *)
(*   serial_data       (USART2, priority 1) polls the shell and reacts to  *)
(*                     command lines and control keys.                     *)
(* RTIC gives each shared resource the ceiling of the highest priority of  *)
(* the tasks that share it; lock() from a lower priority task raises the   *)
(* running priority to that ceiling for the closure.                       *)
(***************************************************************************)
EXTENDS Integers, Sequences, FiniteSets, TLC

VARIABLES
    blink_enabled,  \* Shared.blink_enabled                       (main.rs:51)
    timer_hz,       \* rate last given to blink_timer.start()     (main.rs:52)
    timer_irq,      \* TIM16 update-interrupt flag is pending
    blink_freq,     \* Local.blink_freq of serial_data            (main.rs:57)
    led,            \* Local.led output level, TRUE = high        (main.rs:58)
    pending,        \* bytes and error flags waiting at the USART2 receiver
    spc,            \* position of serial_data
    cur,            \* the input event serial_data is handling / handled last
                    \* (its args only until the arm ends)
    on,             \* serial_data's local `on` of the status arm (main.rs:145)
    out,            \* what serial_data wrote to the shell for `cur`
    tpc,            \* position of blink_timer_tick
    tick_e,         \* the value blink_timer_tick read from blink_enabled
    prev_set,       \* history: N from the moment a command `set N`, N in
                    \* 1..100 in plain decimal, is answered until the event
                    \* after the next one is taken; else 0
    prev_ev         \* history, kept while `cur` is a status, on, off, Ctrl+D
                    \* or Ctrl+C being handled: what the event before it was,
                    \* "boot" (none, `cur` is the first), "on" (on / Ctrl+D),
                    \* "off" (off / Ctrl+C); else "other"

vars == <<blink_enabled, timer_hz, timer_irq, blink_freq, led, pending,
          spc, cur, on, out, tpc, tick_e, prev_set, prev_ev>>

----------------------------------------------------------------------------
(* Bounds of the model *)

MaxPending == 1

----------------------------------------------------------------------------
(* Program constants *)

SHELL_PROMPT == "#> "
CR == "\r\n"
HELP == "HELP"
CLEAR_SEQ == "CLEAR"

MaxFreq == 100
InitFreq == 2
InitHz == 4
U8Max == 255

TickPrio == 2
SerialPrio == 1

CTRL_C == 3
CTRL_D == 4
CTRL_K == 11
CTRL_S == 19
CTRL_X == 24

----------------------------------------------------------------------------
(* Text <-> number conversions *)

DigitChars == <<"0", "1", "2", "3", "4", "5", "6", "7", "8", "9">>

IsDigit(c) == \E i \in 1..10 : DigitChars[i] = c

DigitVal(c) == (CHOOSE i \in 1..10 : DigitChars[i] = c) - 1

\* core::fmt::Display for u8: decimal, no sign, no leading zeros
RECURSIVE FormatU8(_)
FormatU8(n) ==
    IF n < 10 THEN <<DigitChars[n + 1]>>
    ELSE FormatU8(n \div 10) \o <<DigitChars[(n % 10) + 1]>>

Ok(v) == [ok |-> TRUE, val |-> v]
Err == [ok |-> FALSE, val |-> 0]

\* btoi::btou::<u8>: every byte a decimal digit, checked_mul / checked_add
RECURSIVE BtouFrom(_, _)
BtouFrom(acc, bytes) ==
    IF bytes = <<>> THEN Ok(acc)
    ELSE IF ~IsDigit(Head(bytes)) THEN Err
    ELSE IF acc * 10 > U8Max THEN Err
    ELSE IF acc * 10 + DigitVal(Head(bytes)) > U8Max THEN Err
    ELSE BtouFrom(acc * 10 + DigitVal(Head(bytes)), Tail(bytes))

btou(bytes) == IF bytes = <<>> THEN Err ELSE BtouFrom(0, bytes)

\* btoi::btoi::<u8>, negative branch: checked_mul / checked_sub from zero
RECURSIVE BtoiNegFrom(_, _)
BtoiNegFrom(acc, bytes) ==
    IF bytes = <<>> THEN Ok(acc)
    ELSE IF ~IsDigit(Head(bytes)) THEN Err
    ELSE IF acc * 10 - DigitVal(Head(bytes)) < 0 THEN Err
    ELSE BtoiNegFrom(acc * 10 - DigitVal(Head(bytes)), Tail(bytes))

btoi(bytes) ==
    IF bytes = <<>> THEN Err
    ELSE IF Head(bytes) = "+" THEN btou(Tail(bytes))
    ELSE IF Head(bytes) = "-"
         THEN (IF Tail(bytes) = <<>> THEN Err ELSE BtoiNegFrom(0, Tail(bytes)))
    ELSE btou(bytes)

\* faulty variant: the guard without its upper limit
SetAcceptsNoUpper(args) == btoi(args).ok /\ btoi(args).val > 0

\* faulty variant: the guard with freq >= 0
SetAcceptsZero(args) == btoi(args).ok /\ btoi(args).val >= 0 /\ btoi(args).val <= MaxFreq

\* the guard of the set arm: Ok(freq) if freq > 0 && freq <= 100
SetAccepts(args) == btoi(args).ok /\ btoi(args).val > 0 /\ btoi(args).val <= MaxFreq

----------------------------------------------------------------------------
(* Input events: what shell.poll() can hand to serial_data *)

CmdNames == {"help", "clear", "on", "off", "status", "set", "", "foo"}

\* argument texts of `set`
ArgSet ==
    { <<"0">>, <<"1">>, <<"2">>, <<"1", "0">>, <<"9", "9">>, <<"1", "0", "0">>,
      <<"1", "0", "1">>, <<"2", "5", "6">>, <<"1", "0", "0", "0">>,
      <<>>, <<"a", "b", "c">>, <<"+", "7">>, <<"-", "1">>, <<"-", "0">>,
      <<"0", "0", "7">> }

\* the number a text of decimal digits writes, of any size
RECURSIVE DecimalValue(_)
DecimalValue(txt) ==
    IF txt = <<>> THEN 0
    ELSE DecimalValue(SubSeq(txt, 1, Len(txt) - 1)) * 10 + DigitVal(txt[Len(txt)])

AllDigits(txt) == txt # <<>> /\ \A i \in 1..Len(txt) : IsDigit(txt[i])

Codes == {CTRL_C, CTRL_D, CTRL_K, CTRL_S, CTRL_X}

NoEvent == [kind |-> "none", cmd |-> "", args |-> <<>>, code |-> 0]

Command(c, a) == [kind |-> "cmd", cmd |-> c, args |-> a, code |-> 0]

Control(k) == [kind |-> "ctrl", cmd |-> "", args |-> <<>>, code |-> k]

Events ==
    {Command(c, <<>>) : c \in CmdNames \ {"set"}}
      \cup {Command("set", a) : a \in ArgSet}
      \cup {Control(k) : k \in Codes}

IsCmd(c) == cur.kind = "cmd" /\ cur.cmd = c

IsCtrl(k) == cur.kind = "ctrl" /\ cur.code = k

----------------------------------------------------------------------------
(* Priorities *)

Max(a, b) == IF a >= b THEN a ELSE b

\* faulty variant: lock() leaves the priority where it is
CeilingNotRaised == SerialPrio

\* both tasks share blink_enabled and blink_timer
Ceiling == Max(TickPrio, SerialPrio)

\* the priority the core is running at
CurrentPrio ==
    IF tpc # "idle" THEN TickPrio
    ELSE IF spc = "cs" THEN Ceiling
    ELSE IF spc # "idle" THEN SerialPrio
    ELSE 0

\* faulty variant: serial_data keeps running beside a tick handler
SerialRunsBesideTick == TRUE

\* serial_data is the running code (not preempted)
SerialRuns == tpc = "idle"

----------------------------------------------------------------------------
(* init *)

Init ==
    /\ blink_enabled = FALSE
    /\ timer_hz = InitHz
    /\ timer_irq = FALSE
    /\ blink_freq = InitFreq
    /\ led = FALSE
    /\ pending = 0
    /\ spc = "idle"
    /\ cur = NoEvent
    /\ on = FALSE
    /\ out = <<>>
    /\ tpc = "idle"
    /\ tick_e = FALSE
    /\ prev_set = 0
    /\ prev_ev = "other"

----------------------------------------------------------------------------
(* Hardware *)

\* a byte arrives at USART2, or a reception error raises its flag
Receive ==
    /\ pending < MaxPending
    /\ pending' = pending + 1
    /\ UNCHANGED <<blink_enabled, timer_hz, timer_irq, blink_freq, led,
                   spc, cur, on, out, tpc, tick_e, prev_set, prev_ev>>

\* TIM16 reaches its period and raises its interrupt flag
TimerFire ==
    /\ ~timer_irq
    /\ timer_irq' = TRUE
    /\ UNCHANGED <<blink_enabled, timer_hz, blink_freq, led, pending,
                   spc, cur, on, out, tpc, tick_e, prev_set, prev_ev>>

----------------------------------------------------------------------------
(* blink_timer_tick *)

\* the TIM16 interrupt is pending and its priority lets it be taken now
TickReady == tpc = "idle" /\ timer_irq /\ TickPrio > CurrentPrio

\* faulty variant: the handler does not read the flag anew
TickStartNoRead ==
    /\ TickReady
    /\ tpc' = "led"
    /\ UNCHANGED <<blink_enabled, timer_hz, timer_irq, blink_freq, led,
                   pending, spc, cur, on, out, tick_e, prev_set, prev_ev>>

\* the handler is entered and reads blink_enabled.lock(|e| *e)
TickStart ==
    /\ TickReady
    /\ tick_e' = blink_enabled
    /\ tpc' = "led"
    /\ UNCHANGED <<blink_enabled, timer_hz, timer_irq, blink_freq, led,
                   pending, spc, cur, on, out, prev_set, prev_ev>>

\* faulty variant: an enabled animation drives the output high
TickLedSetsHigh ==
    /\ tpc = "led"
    /\ led' = tick_e
    /\ tpc' = "clear"
    /\ UNCHANGED <<blink_enabled, timer_hz, timer_irq, blink_freq,
                   pending, spc, cur, on, out, tick_e, prev_set, prev_ev>>

\* faulty variant: a disabled animation leaves the output as it is
TickLedNoForceLow ==
    /\ tpc = "led"
    /\ led' = IF tick_e THEN ~led ELSE led
    /\ tpc' = "clear"
    /\ UNCHANGED <<blink_enabled, timer_hz, timer_irq, blink_freq,
                   pending, spc, cur, on, out, tick_e, prev_set, prev_ev>>

\* faulty variant: the output is toggled whatever was read
TickLedAlwaysToggle ==
    /\ tpc = "led"
    /\ led' = ~led
    /\ tpc' = "clear"
    /\ UNCHANGED <<blink_enabled, timer_hz, timer_irq, blink_freq,
                   pending, spc, cur, on, out, tick_e, prev_set, prev_ev>>

\* led.toggle() / led.set_low()
TickLed ==
    /\ tpc = "led"
    /\ led' = IF tick_e THEN ~led ELSE FALSE
    /\ tpc' = "clear"
    /\ UNCHANGED <<blink_enabled, timer_hz, timer_irq, blink_freq,
                   pending, spc, cur, on, out, tick_e, prev_set, prev_ev>>

\* faulty variant: the handler restarts the timer at the rate set by init
TickClearRestarts ==
    /\ tpc = "clear"
    /\ timer_irq' = FALSE
    /\ timer_hz' = InitHz
    /\ tpc' = "idle"
    /\ tick_e' = FALSE
    /\ UNCHANGED <<blink_enabled, blink_freq, led,
                   pending, spc, cur, on, out, prev_set, prev_ev>>

\* blink_timer.lock(|t| t.clear_irq()), then the handler returns
TickClear ==
    /\ tpc = "clear"
    /\ timer_irq' = FALSE
    /\ tpc' = "idle"
    /\ tick_e' = FALSE
    /\ UNCHANGED <<blink_enabled, timer_hz, blink_freq, led,
                   pending, spc, cur, on, out, prev_set, prev_ev>>

----------------------------------------------------------------------------
(* serial_data: responses *)

\* faulty variant: the two status texts exchanged
StatusTextSwapped(e) == IF e THEN "Off" ELSE "On"

\* let status = if on { "On" } else { "Off" }
StatusText(e) == IF e THEN "On" ELSE "Off"

\* faulty variant: the status arm prints the timer rate
StatusResponseOfRate(e, f) ==
    <<CR, "Animation: ", StatusText(e), CR, "Frequency: ">> \o FormatU8(f * 2) \o <<"Hz", CR>>

\* write!(shell, "{0:}Animation: {1:}{0:}Frequency: {2:}Hz{0:}", CR, status, blink_freq)
StatusResponse(e, f) ==
    <<CR, "Animation: ", StatusText(e), CR, "Frequency: ">> \o FormatU8(f) \o <<"Hz", CR>>

UnsupportedFrequency == <<CR, "unsupported frequency", CR>>

UnsupportedCommand == <<CR, "unsupported command", CR>>

\* faulty variant: the prompt is written before the arm's response
PromptFirst(resp) == <<SHELL_PROMPT>> \o resp

\* shell.write_str(SHELL_PROMPT) after the inner match
WithPrompt(resp) == resp \o <<SHELL_PROMPT>>

----------------------------------------------------------------------------
(* serial_data: entry, poll loop *)

\* USART2 interrupt (Rxne) taken
SerialStart ==
    /\ spc = "idle"
    /\ pending > 0
    /\ SerialPrio > CurrentPrio
    /\ spc' = "poll"
    /\ UNCHANGED <<blink_enabled, timer_hz, timer_irq, blink_freq, led,
                   pending, cur, on, out, tpc, tick_e, prev_set, prev_ev>>

\* faulty variant: the loop polls again when no byte is there
PollWouldBlockSpins ==
    /\ spc = "poll"
    /\ SerialRuns
    /\ pending = 0
    /\ spc' = "poll"
    /\ UNCHANGED <<blink_enabled, timer_hz, timer_irq, blink_freq, led,
                   pending, cur, on, out, tpc, tick_e, prev_set, prev_ev>>

\* shell.poll() finds no byte: Err(WouldBlock) => break, the handler returns
PollWouldBlock ==
    /\ spc = "poll"
    /\ SerialRuns
    /\ pending = 0
    /\ spc' = "idle"
    /\ UNCHANGED <<blink_enabled, timer_hz, timer_irq, blink_freq, led,
                   pending, cur, on, out, tpc, tick_e, prev_set, prev_ev>>

\* shell.poll() takes a byte into the line buffer: Ok(None), `_ => {}`
PollNone ==
    /\ spc = "poll"
    /\ SerialRuns
    /\ pending > 0
    /\ pending' = pending - 1
    /\ UNCHANGED <<blink_enabled, timer_hz, timer_irq, blink_freq, led,
                   spc, cur, on, out, tpc, tick_e, prev_set, prev_ev>>

\* the N of a `set N` event with N in 1..100 in plain decimal, else 0
PlainSetN(ev) ==
    IF /\ ev.kind = "cmd" /\ ev.cmd = "set" /\ AllDigits(ev.args)
       /\ Head(ev.args) # "0"
       /\ DecimalValue(ev.args) \in 1..MaxFreq
    THEN DecimalValue(ev.args) ELSE 0

\* what an event is to the one handled after it
EventClass(ev) ==
    IF ev.kind = "none" THEN "boot"
    ELSE IF (ev.kind = "cmd" /\ ev.cmd = "on") \/ (ev.kind = "ctrl" /\ ev.code = CTRL_D)
      THEN "on"
    ELSE IF (ev.kind = "cmd" /\ ev.cmd = "off") \/ (ev.kind = "ctrl" /\ ev.code = CTRL_C)
      THEN "off"
    ELSE "other"

\* the events whose predecessor is remembered
Tracked(ev) ==
    \/ ev.kind = "cmd" /\ ev.cmd \in {"status", "on", "off"}
    \/ ev.kind = "ctrl" /\ ev.code \in {CTRL_D, CTRL_C}

\* shell.poll() finds an error flag: Err(ShellError::ReadError(_)), `_ => {}`;
\* reading it cleared the flag
PollError ==
    /\ spc = "poll"
    /\ SerialRuns
    /\ pending > 0
    /\ pending' = pending - 1
    /\ UNCHANGED <<blink_enabled, timer_hz, timer_irq, blink_freq, led,
                   spc, cur, on, out, tpc, tick_e, prev_set, prev_ev>>

\* shell.poll() takes a byte and yields Ok(Some(event)); the match selects its arm
PollEvent ==
    /\ spc = "poll"
    /\ SerialRuns
    /\ pending > 0
    /\ pending' = pending - 1
    /\ \E ev \in Events : cur' = ev
    /\ prev_set' = IF IsCmd("set") THEN prev_set ELSE 0
    /\ prev_ev' = IF Tracked(cur') THEN EventClass(cur) ELSE "other"
    /\ out' = <<>>
    /\ spc' = "arm"
    /\ UNCHANGED <<blink_enabled, timer_hz, timer_irq, blink_freq, led,
                   on, tpc, tick_e>>

\* `_ => {}`: a control code without an arm; back to the loop head
ArmIgnore ==
    /\ spc = "arm"
    /\ SerialRuns
    /\ cur.kind = "ctrl"
    /\ cur.code \notin {CTRL_C, CTRL_D, CTRL_S, CTRL_X}
    /\ spc' = "poll"
    /\ UNCHANGED <<blink_enabled, timer_hz, timer_irq, blink_freq, led,
                   pending, cur, on, out, tpc, tick_e, prev_set, prev_ev>>

----------------------------------------------------------------------------
(* serial_data: command arms that touch no shared resource *)

\* the arm's response, then shell.write_str(SHELL_PROMPT); cmd's args and the
\* arm's locals go out of scope
Respond(resp) ==
    /\ out' = WithPrompt(resp)
    /\ spc' = "poll"
    /\ on' = FALSE
    /\ cur' = [cur EXCEPT !.args = <<>>]
    /\ prev_set' = IF IsCmd("set") THEN PlainSetN(cur) ELSE prev_set
    /\ prev_ev' = "other"
    /\ UNCHANGED <<blink_enabled, timer_hz, timer_irq, blink_freq, led,
                   pending, tpc, tick_e>>

ArmHelp == spc = "arm" /\ SerialRuns /\ IsCmd("help") /\ Respond(<<HELP>>)

ArmClear == spc = "arm" /\ SerialRuns /\ IsCmd("clear") /\ Respond(<<CLEAR_SEQ>>)

ArmEmpty == spc = "arm" /\ SerialRuns /\ IsCmd("") /\ Respond(<<CR>>)

ArmUnknown ==
    /\ spc = "arm"
    /\ SerialRuns
    /\ cur.kind = "cmd"
    /\ cur.cmd \notin {"help", "clear", "on", "off", "status", "set", ""}
    /\ Respond(UnsupportedCommand)

ArmSetRejected ==
    /\ spc = "arm"
    /\ SerialRuns
    /\ IsCmd("set")
    /\ ~SetAccepts(cur.args)
    /\ Respond(UnsupportedFrequency)

----------------------------------------------------------------------------
(* serial_data: arms that lock a shared resource *)

\* the arms whose first statement is blink_enabled.lock(..)
LocksEnabledFirst ==
    \/ IsCmd("on") \/ IsCmd("off") \/ IsCmd("status")
    \/ IsCtrl(CTRL_D) \/ IsCtrl(CTRL_C)

\* lock() entered: the priority is raised to the ceiling
LockEnabled ==
    /\ spc = "arm"
    /\ SerialRuns
    /\ LocksEnabledFirst
    /\ spc' = "cs"
    /\ UNCHANGED <<blink_enabled, timer_hz, timer_irq, blink_freq, led,
                   pending, cur, on, out, tpc, tick_e, prev_set, prev_ev>>

\* *blink_freq = freq, outside any lock
ArmSetAccepted ==
    /\ spc = "arm"
    /\ SerialRuns
    /\ IsCmd("set")
    /\ SetAccepts(cur.args)
    /\ blink_freq' = btoi(cur.args).val
    /\ spc' = "lock"
    /\ UNCHANGED <<blink_enabled, timer_hz, timer_irq, led,
                   pending, cur, on, out, tpc, tick_e, prev_set, prev_ev>>

\* faulty variant: CTRL_S without its limit
ArmCtrlSUnclamped ==
    /\ spc = "arm"
    /\ SerialRuns
    /\ IsCtrl(CTRL_S)
    /\ spc' = "lock"
    /\ blink_freq' = (blink_freq + 1) % (U8Max + 1)
    /\ UNCHANGED <<blink_enabled, timer_hz, timer_irq, led,
                   pending, cur, on, out, tpc, tick_e, prev_set, prev_ev>>

\* CTRL_S: if *blink_freq == 100 { return; } *blink_freq += 1;
ArmCtrlS ==
    /\ spc = "arm"
    /\ SerialRuns
    /\ IsCtrl(CTRL_S)
    /\ IF blink_freq = MaxFreq
         THEN spc' = "idle" /\ UNCHANGED blink_freq
         ELSE spc' = "lock" /\ blink_freq' = (blink_freq + 1) % (U8Max + 1)
    /\ UNCHANGED <<blink_enabled, timer_hz, timer_irq, led,
                   pending, cur, on, out, tpc, tick_e, prev_set, prev_ev>>

\* CTRL_X: if *blink_freq == 1 { return; } *blink_freq -= 1;
ArmCtrlX ==
    /\ spc = "arm"
    /\ SerialRuns
    /\ IsCtrl(CTRL_X)
    /\ IF blink_freq = 1
         THEN spc' = "idle" /\ UNCHANGED blink_freq
         ELSE spc' = "lock" /\ blink_freq' = (blink_freq - 1) % (U8Max + 1)
    /\ UNCHANGED <<blink_enabled, timer_hz, timer_irq, led,
                   pending, cur, on, out, tpc, tick_e, prev_set, prev_ev>>

\* blink_timer.lock(..) entered
LockTimer ==
    /\ spc = "lock"
    /\ SerialRuns
    /\ spc' = "cs"
    /\ UNCHANGED <<blink_enabled, timer_hz, timer_irq, blink_freq, led,
                   pending, cur, on, out, tpc, tick_e, prev_set, prev_ev>>

\* faulty variant: on and Ctrl+D flip the flag
CsWriteEnabledFlip ==
    /\ spc = "cs"
    /\ SerialRuns
    /\ IsCmd("on") \/ IsCmd("off") \/ IsCtrl(CTRL_D) \/ IsCtrl(CTRL_C)
    /\ blink_enabled' = ((IsCmd("on") \/ IsCtrl(CTRL_D)) /\ ~blink_enabled)
    /\ spc' = IF cur.kind = "cmd" THEN "reply" ELSE "poll"
    /\ prev_ev' = IF cur.kind = "cmd" THEN prev_ev ELSE "other"
    /\ UNCHANGED <<timer_hz, timer_irq, blink_freq, led,
                   pending, cur, on, out, tpc, tick_e, prev_set>>

\* faulty variant: both control keys switch the animation on
CsWriteEnabledBothOn ==
    /\ spc = "cs"
    /\ SerialRuns
    /\ IsCmd("on") \/ IsCmd("off") \/ IsCtrl(CTRL_D) \/ IsCtrl(CTRL_C)
    /\ blink_enabled' = (IsCmd("on") \/ cur.kind = "ctrl")
    /\ spc' = IF cur.kind = "cmd" THEN "reply" ELSE "poll"
    /\ prev_ev' = IF cur.kind = "cmd" THEN prev_ev ELSE "other"
    /\ UNCHANGED <<timer_hz, timer_irq, blink_freq, led,
                   pending, cur, on, out, tpc, tick_e, prev_set>>

\* |e| *e = true / |e| *e = false, and the lock is left
CsWriteEnabled ==
    /\ spc = "cs"
    /\ SerialRuns
    /\ IsCmd("on") \/ IsCmd("off") \/ IsCtrl(CTRL_D) \/ IsCtrl(CTRL_C)
    /\ blink_enabled' = (IsCmd("on") \/ IsCtrl(CTRL_D))
    /\ spc' = IF cur.kind = "cmd" THEN "reply" ELSE "poll"
    /\ prev_ev' = IF cur.kind = "cmd" THEN prev_ev ELSE "other"
    /\ UNCHANGED <<timer_hz, timer_irq, blink_freq, led,
                   pending, cur, on, out, tpc, tick_e, prev_set>>

\* let on = blink_enabled.lock(|e| *e)
CsReadEnabled ==
    /\ spc = "cs"
    /\ SerialRuns
    /\ IsCmd("status")
    /\ on' = blink_enabled
    /\ spc' = "reply"
    /\ UNCHANGED <<blink_enabled, timer_hz, timer_irq, blink_freq, led,
                   pending, cur, out, tpc, tick_e, prev_set, prev_ev>>

\* faulty variant: the set arm gives the timer the frequency itself
SetHzUndoubled(args) == btoi(args).val

\* faulty variant: the control-key arms give the timer the frequency itself
StepHzUndoubled(f) == f

\* the rate the set arm gives the timer: (freq as u32 * 2).hz()
SetHz(args) == btoi(args).val * 2

\* the rate the CTRL_S / CTRL_X arms give the timer: (*blink_freq as u32 * 2).hz()
StepHz(f) == f * 2

\* faulty variant: setting the timer also switches the animation on
CsStartTimerEnables ==
    /\ spc = "cs"
    /\ SerialRuns
    /\ \/ IsCmd("set") /\ timer_hz' = SetHz(cur.args) /\ spc' = "reply"
       \/ (IsCtrl(CTRL_S) \/ IsCtrl(CTRL_X))
            /\ timer_hz' = StepHz(blink_freq) /\ spc' = "poll"
    /\ blink_enabled' = TRUE
    /\ UNCHANGED <<timer_irq, blink_freq, led,
                   pending, cur, on, out, tpc, tick_e, prev_set, prev_ev>>

\* |t| t.start(..), and the lock is left
CsStartTimer ==
    /\ spc = "cs"
    /\ SerialRuns
    /\ \/ IsCmd("set") /\ timer_hz' = SetHz(cur.args) /\ spc' = "reply"
       \/ (IsCtrl(CTRL_S) \/ IsCtrl(CTRL_X))
            /\ timer_hz' = StepHz(blink_freq) /\ spc' = "poll"
    /\ UNCHANGED <<blink_enabled, timer_irq, blink_freq, led,
                   pending, cur, on, out, tpc, tick_e, prev_set, prev_ev>>

\* shell.write_str(CR) of on / off / set, then the prompt
ReplyCr ==
    /\ spc = "reply"
    /\ SerialRuns
    /\ IsCmd("on") \/ IsCmd("off") \/ IsCmd("set")
    /\ Respond(<<CR>>)

\* the write! of the status arm, then the prompt
ReplyStatus ==
    /\ spc = "reply"
    /\ SerialRuns
    /\ IsCmd("status")
    /\ Respond(StatusResponse(on, blink_freq))

----------------------------------------------------------------------------

Next ==
    \/ Receive
    \/ TimerFire
    \/ TickStart
    \/ TickLed
    \/ TickClear
    \/ SerialStart
    \/ PollWouldBlock
    \/ PollNone
    \/ PollError
    \/ PollEvent
    \/ ArmIgnore
    \/ ArmHelp
    \/ ArmClear
    \/ ArmEmpty
    \/ ArmUnknown
    \/ ArmSetRejected
    \/ LockEnabled
    \/ ArmSetAccepted
    \/ ArmCtrlS
    \/ ArmCtrlX
    \/ LockTimer
    \/ CsWriteEnabled
    \/ CsReadEnabled
    \/ CsStartTimer
    \/ ReplyCr
    \/ ReplyStatus

Spec == Init /\ [][Next]_vars

\* a critical section of serial_data ends
CsExit == CsWriteEnabled \/ CsReadEnabled \/ CsStartTimer

\* The timer keeps firing, the core keeps executing the handler it runs, and
\* a pending TIM16 interrupt is taken once the running priority allows it.
FairSpec ==
    /\ Spec
    /\ WF_vars(TimerFire)
    /\ SF_vars(TickStart)
    /\ WF_vars(TickLed)
    /\ WF_vars(TickClear)
    /\ WF_vars(CsExit)

\* a step of serial_data after its entry
SerialStep ==
    \/ PollWouldBlock \/ PollNone \/ PollError \/ PollEvent
    \/ ArmIgnore \/ ArmHelp \/ ArmClear \/ ArmEmpty \/ ArmUnknown
    \/ ArmSetRejected \/ LockEnabled \/ ArmSetAccepted \/ ArmCtrlS \/ ArmCtrlX
    \/ LockTimer \/ CsWriteEnabled \/ CsReadEnabled \/ CsStartTimer
    \/ ReplyCr \/ ReplyStatus

\* As FairSpec, and serial_data gets the core again and again between tick
\* handlers: the timer period is long against the handlers' run time.
LiveSpec ==
    /\ FairSpec
    /\ SF_vars(SerialStep)

----------------------------------------------------------------------------
(* Claims *)

\* the event in hand changes the frequency
FreqEvent == (IsCmd("set") /\ SetAccepts(cur.args)) \/ IsCtrl(CTRL_S) \/ IsCtrl(CTRL_X)

\* C1: in every reachable state the configured frequency is in 1..100.
C1_FrequencyInRange == blink_freq \in 1..MaxFreq

\* Ctrl+S was handled at frequency 100
C1_Witness == blink_freq = MaxFreq /\ IsCtrl(CTRL_S) /\ spc = "idle"

\* C2 as stated: whenever a tick handler can start, the timer rate is twice
\* the frequency.
C2_Original == TickReady => timer_hz = 2 * blink_freq

\* C2, amended: the frequency is written first, outside any critical section,
\* and the timer rate inside a critical section on blink_timer.  The rate
\* differs from twice the frequency only while serial_data is between the two
\* (where a tick can start) or inside that critical section (where no tick can
\* start or run).
C2_RateLagsOnlyInWindow ==
    timer_hz # 2 * blink_freq =>
        /\ FreqEvent
        /\ \/ spc = "lock"
           \/ spc = "cs" /\ ~TickReady /\ tpc = "idle"

\* a tick handler runs between the frequency write and the timer update
C2_Witness == tpc # "idle" /\ spc = "lock" /\ timer_hz # 2 * blink_freq

\* C3: at boot and whenever serial_data has finished an input event (it is at
\* the loop head or has returned) the timer rate is exactly twice the
\* frequency, and it is 2*N once the arm of an accepted `set N` has left its
\* critical section.
C3_RateIsTwiceFrequency ==
    /\ spc \in {"idle", "poll"} =>
          /\ timer_hz = 2 * blink_freq
          /\ cur = NoEvent => timer_hz = 4 /\ blink_freq = 2
    /\ (spc = "reply" /\ PlainSetN(cur) # 0) => timer_hz = 2 * PlainSetN(cur)

\* Ctrl+S took the frequency to 100 and the timer to 200 Hz
C3_Witness == spc = "poll" /\ IsCtrl(CTRL_S) /\ timer_hz = 2 * MaxFreq

\* C4: a tick handler never starts or runs while serial_data is inside a
\* critical section; outside one a pending tick can start at once; and
\* serial_data makes no step while a tick handler is active (a started tick
\* runs to completion).
C4_PriorityCeiling ==
    [][ /\ spc = "cs" => tpc = "idle" /\ tpc' = "idle"
        /\ (spc # "cs" /\ tpc = "idle" /\ timer_irq) => ENABLED TickStart
        /\ tpc # "idle" =>
             UNCHANGED <<spc, cur, on, out, blink_freq, blink_enabled, timer_hz>>
      ]_vars

\* a tick is pending while serial_data is inside a critical section
C4_Witness == spc = "cs" /\ timer_irq /\ tpc = "idle"

\* C5: serial_data returns only when it has drained the input: nothing is
\* pending at the transport when it returns (the last poll was WouldBlock).
C5_ReturnsOnlyWhenDrained ==
    [][ spc # "idle" /\ spc' = "idle" => pending = 0 ]_vars

\* the digits between "Frequency: " and "Hz" of a status response
FrequencyDigits(resp) == SubSeq(resp, 6, Len(resp) - 3)

\* C6: a `status` handled right after `set N`, N in 1..100, answers with
\* "Frequency: <N>Hz"; and the set arm accepts the decimal text of every N
\* in 1..100 as N.
C6_SetThenStatus ==
    (IsCmd("status") /\ prev_set # 0 /\ out # <<>>) =>
        /\ Len(out) >= 9
        /\ out[5] = "Frequency: "
        /\ out[Len(out) - 2] = "Hz"
        /\ AllDigits(FrequencyDigits(out))
        /\ DecimalValue(FrequencyDigits(out)) = prev_set
        /\ \A n \in 1..MaxFreq :
             /\ SetAccepts(FormatU8(n)) /\ btoi(FormatU8(n)).val = n
             /\ DecimalValue(FormatU8(n)) = n

\* `status` answered after `set 100`
C6_Witness == IsCmd("status") /\ prev_set = MaxFreq /\ out # <<>> /\ spc = "poll"

\* the text writes an integer in 1..100: decimal digits, "+" allowed in front
\* (a text with "-" in front writes no positive number)
UnsignedPart(txt) == IF txt # <<>> /\ Head(txt) = "+" THEN Tail(txt) ELSE txt

DenotesFrequency(txt) ==
    /\ AllDigits(UnsignedPart(txt))
    /\ DecimalValue(UnsignedPart(txt)) \in 1..MaxFreq

\* C7: while serial_data handles a `set` whose argument is not an integer in
\* 1..100, no step changes frequency, timer rate or enabled, and the handler
\* leaves the command having written "unsupported frequency" and the prompt.
C7_RejectedSet ==
    [][ (IsCmd("set") /\ ~DenotesFrequency(cur.args) /\ spc \notin {"idle", "poll"}) =>
          /\ UNCHANGED <<blink_freq, timer_hz, blink_enabled>>
          /\ \/ spc' = "arm" /\ spc = "arm"
             \/ /\ spc' = "poll"
                /\ out' = <<"\r\n", "unsupported frequency", "\r\n", "#> ">>
      ]_vars

\* a rejected `set` was answered
C7_Witness ==
    /\ IsCmd("set") /\ spc = "poll"
    /\ out = <<"\r\n", "unsupported frequency", "\r\n", "#> ">>

\* C8: while serial_data handles Ctrl+S / Ctrl+X, enabled never changes; the
\* arm takes the frequency from f to f+1 (f < 100) resp. f-1 (f > 1), and at
\* the limit it changes nothing and leaves the event; afterwards the frequency
\* stays and the timer rate changes only to twice the frequency.
C8_StepKeys ==
    [][ ((IsCtrl(CTRL_S) \/ IsCtrl(CTRL_X)) /\ spc \in {"arm", "lock", "cs"}) =>
          /\ UNCHANGED blink_enabled
          /\ IF spc = "arm" /\ spc' # "arm"
               THEN IF (IsCtrl(CTRL_S) /\ blink_freq < 100) \/ (IsCtrl(CTRL_X) /\ blink_freq > 1)
                      THEN /\ blink_freq' = IF IsCtrl(CTRL_S) THEN blink_freq + 1
                                                               ELSE blink_freq - 1
                           /\ spc' = "lock"
                           /\ UNCHANGED timer_hz
                      ELSE /\ UNCHANGED <<blink_freq, timer_hz>>
                           /\ blink_freq = IF IsCtrl(CTRL_S) THEN 100 ELSE 1
                           /\ spc' \in {"idle", "poll"}
               ELSE /\ UNCHANGED blink_freq
                    /\ \/ UNCHANGED timer_hz
                       \/ spc = "cs" /\ spc' = "poll" /\ timer_hz' = 2 * blink_freq
      ]_vars

\* Ctrl+X took the frequency from 2 to 1 and is about to set the timer
C8_Witness == IsCtrl(CTRL_X) /\ spc = "lock" /\ blink_freq = 1 /\ timer_hz = 4

\* C9: a tick handler goes once through read, drive, clear (idle -> led ->
\* clear -> idle); the output
\* changes only in its drive step, to the inverse when enabled is true and to
\* low otherwise; the handler ends with the pending flag cleared.
C9_TickDrivesOnce ==
    [][ /\ tpc' # tpc =>
             <<tpc, tpc'>> \in {<<"idle", "led">>, <<"led", "clear">>,
                                <<"clear", "idle">>}
        /\ IF tpc = "led" /\ tpc' = "clear"
             THEN led' = (IF blink_enabled THEN ~led ELSE FALSE)
             ELSE led' = led
        /\ (tpc = "clear" /\ tpc' = "idle") => ~timer_irq'
      ]_vars

\* a tick with enabled true has driven the output high
C9_Witness == tpc = "clear" /\ blink_enabled /\ led /\ tick_e

\* C10: a tick handler reads enabled as serial_data last wrote it; with
\* enabled false every drive step leaves the output low and a low output
\* stays low; under fair ticks a false enabled leads to a low output (or to
\* enabled being set true again).
C10_OffReachesOutput ==
    /\ [][ /\ (tpc = "idle" /\ tpc' = "led") => tick_e' = blink_enabled
           /\ (tpc = "led" /\ tpc' = "clear" /\ ~blink_enabled) => ~led'
           /\ (~blink_enabled /\ ~led) => ~led'
         ]_vars
    /\ [](~blink_enabled => <>(~led \/ blink_enabled))

\* after `off`, with the output high, a tick has read enabled as false
C10_Witness == IsCmd("off") /\ ~blink_enabled /\ led /\ tpc = "led" /\ ~tick_e

\* what serial_data has written for the command in hand, without its last piece
ResponseOf(o) == SubSeq(o, 1, Len(o) - 1)

\* C11: while a command is being handled nothing of the prompt is out yet;
\* once it is handled, what was written for it is a non-empty response
\* followed by the prompt "#> ", which occurs once, as the last piece.
C11_PromptLastOnce ==
    cur.kind = "cmd" =>
        IF spc \in {"poll", "idle"}
          THEN /\ Len(out) >= 2
               /\ out[Len(out)] = "#> "
               /\ \A i \in 1..Len(ResponseOf(out)) : ResponseOf(out)[i] # "#> "
          ELSE out = <<>>

\* an unknown command was answered
C11_Witness ==
    /\ IsCmd("foo")
    /\ spc = "poll"
    /\ out = <<"\r\n", "unsupported command", "\r\n", "#> ">>

\* C12: a control code goes from the poll that yields it straight to its own
\* arm; from there until the loop is back at its head nothing is written (no
\* response, no prompt) and the event in hand stays that control code.  For
\* Ctrl+D and Ctrl+C the frequency and the timer rate never change, and
\* enabled changes only in the step that leaves the critical section, to true
\* for Ctrl+D and to false for Ctrl+C.
C12_ControlCodes ==
    /\ [](cur.kind = "ctrl" => out = <<>>)
    /\ [][ (cur.kind = "ctrl" /\ spc \notin {"poll", "idle"}) =>
             /\ out' = <<>>
             /\ cur' = cur
             /\ spc' \notin {"reply"}
             /\ (cur.code \in {CTRL_D, CTRL_C}) =>
                    /\ UNCHANGED <<blink_freq, timer_hz>>
                    /\ IF spc = "cs" /\ spc' = "poll"
                         THEN blink_enabled' = (cur.code = CTRL_D)
                         ELSE UNCHANGED blink_enabled
                    /\ spc = "arm" => spc' \in {"arm", "cs"}
                    /\ spc = "cs" => spc' \in {"cs", "poll"}
         ]_vars

\* Ctrl+C was handled, at a frequency changed before
C12_Witness ==
    /\ IsCtrl(CTRL_C)
    /\ spc = "poll"
    /\ ~blink_enabled
    /\ blink_freq = 3
    /\ timer_hz = 6
    /\ out = <<>>

\* the pieces a status answer has around its frequency digits
StatusShape(o, word) ==
    /\ Len(o) >= 9
    /\ SubSeq(o, 1, 5) = <<"\r\n", "Animation: ", word, "\r\n", "Frequency: ">>
    /\ SubSeq(o, Len(o) - 2, Len(o)) = <<"Hz", "\r\n", "#> ">>
    /\ AllDigits(FrequencyDigits(o))
    /\ FrequencyDigits(o)[1] # "0"

\* C13: what is written for `status` is CRLF, "Animation: " with On or Off
\* as enabled is, CRLF, "Frequency: ", the frequency in decimal, "Hz", CRLF
\* and the prompt.  A `status` that is the first event after boot reports
\* Off and 2; one that follows `on` (or Ctrl+D) reports On and one that
\* follows `off` (or Ctrl+C) reports Off, whatever ticks ran in between.
C13_StatusResponse ==
    /\ []( (IsCmd("status") /\ spc \in {"poll", "idle"}) =>
             /\ StatusShape(out, IF blink_enabled THEN "On" ELSE "Off")
             /\ DecimalValue(FrequencyDigits(out)) = blink_freq )
    /\ [][ (IsCmd("status") /\ spc = "reply" /\ spc' = "poll") =>
             /\ prev_ev = "boot" =>
                    /\ StatusShape(out', "Off")
                    /\ FrequencyDigits(out') = <<"2">>
             /\ prev_ev = "on" => StatusShape(out', "On")
             /\ prev_ev = "off" => StatusShape(out', "Off")
         ]_vars

\* `status` has answered On and 2Hz with the output driven high by a tick
C13_Witness ==
    /\ IsCmd("status")
    /\ spc = "poll"
    /\ led
    /\ out = <<"\r\n", "Animation: ", "On", "\r\n", "Frequency: ", "2", "Hz",
               "\r\n", "#> ">>

\* the values a frequency and a timer rate can have when completely written
CompleteFreq == 1..MaxFreq
CompleteHz == {2 * n : n \in 1..MaxFreq}

\* C14: a tick handler never sees a half-done `set`.  The frequency and the
\* timer rate are complete values in every state.  While `set` is in hand
\* the frequency changes in one step, to the number given, and the timer
\* rate in one step, inside the critical section, to twice that number; no
\* such step is taken while a tick handler is between its entry and its
\* return, and no tick handler is inside while serial_data is in the critical
\* section.  So a tick handler meets the value from before the set or the
\* one after it.
C14_NoTornRead ==
    /\ [](blink_freq \in CompleteFreq /\ timer_hz \in CompleteHz)
    /\ [](spc = "cs" => tpc = "idle" /\ ~ENABLED TickStart)
    /\ [][ /\ tpc # "idle" => UNCHANGED <<blink_freq, timer_hz>>
           /\ IsCmd("set") =>
                /\ blink_freq' # blink_freq =>
                     /\ tpc = "idle" /\ tpc' = "idle" /\ spc = "arm"
                     /\ blink_freq' = DecimalValue(UnsignedPart(cur.args))
                /\ timer_hz' # timer_hz =>
                     /\ tpc = "idle" /\ tpc' = "idle" /\ spc = "cs"
                     /\ timer_hz' = 2 * blink_freq
         ]_vars

\* a tick handler is at its drive step after `set 100` stored the frequency
\* and before it reached the timer
C14_Witness ==
    /\ tpc = "led"
    /\ IsCmd("set")
    /\ spc = "lock"
    /\ blink_freq = MaxFreq
    /\ timer_hz = InitHz

\* the event in hand switches the animation on / off
OnEvent == IsCmd("on") \/ IsCtrl(CTRL_D)
OffEvent == IsCmd("off") \/ IsCtrl(CTRL_C)

\* C15: an on (or Ctrl+D) handled right after an on (or Ctrl+D) starts with
\* enabled true and changes none of enabled, frequency and timer rate in any
\* of its steps; likewise an off (or Ctrl+C) right after an off (or Ctrl+C),
\* with enabled false.  So k of them in a row leave what the first left.
C15_OnOffIdempotent ==
    /\ []( (prev_ev = "on" /\ OnEvent /\ spc \notin {"poll", "idle"}) => blink_enabled )
    /\ []( (prev_ev = "off" /\ OffEvent /\ spc \notin {"poll", "idle"}) => ~blink_enabled )
    /\ [][ ( /\ spc \notin {"poll", "idle"}
             /\ \/ prev_ev = "on" /\ OnEvent
                \/ prev_ev = "off" /\ OffEvent )
           => UNCHANGED <<blink_enabled, blink_freq, timer_hz>>
         ]_vars

\* a second `on` in a row has written enabled, at a frequency changed before
C15_Witness ==
    /\ IsCmd("on")
    /\ prev_ev = "on"
    /\ spc = "reply"
    /\ blink_enabled
    /\ blink_freq = 3
    /\ timer_hz = 6

\* C16: every step of a tick handler (entry and read, drive, clear and
\* return) leaves enabled, the frequency and the timer rate as they are, and
\* serial_data, its input and its output with them; of the state outside the
\* handler it changes the output level, in the drive step only, and the
\* pending flag, in the clear step only and to false.
C16_TickFrame ==
    [][ tpc' # tpc =>
          /\ UNCHANGED <<blink_enabled, blink_freq, timer_hz>>
          /\ UNCHANGED <<pending, spc, cur, on, out>>
          /\ led' # led => (tpc = "led" /\ tpc' = "clear")
          /\ timer_irq' # timer_irq => (tpc = "clear" /\ tpc' = "idle" /\ ~timer_irq')
      ]_vars

\* a tick handler has driven the output and cleared the flag, with the
\* animation on at 100 Hz
C16_Witness ==
    /\ tpc = "idle"
    /\ ~timer_irq
    /\ led
    /\ blink_enabled
    /\ blink_freq = MaxFreq
    /\ timer_hz = 2 * MaxFreq

\* a poll made by serial_data
PollStep == spc = "poll" /\ (spc' # spc \/ pending' < pending)

\* C17: serial_data never waits: wherever it stands it has a step to take
\* as soon as no tick handler runs.  Each poll either takes one unit of
\* pending input (a byte that completes nothing, a byte that completes a
\* command or a control code, an error flag) or finds none and returns; an
\* arm goes on to the loop head or returns.  So a handler that is running
\* returns unless input keeps arriving.
C17_SerialTerminates ==
    /\ []((spc # "idle" /\ tpc = "idle") => ENABLED <<SerialStep>>_vars)
    /\ [][ PollStep =>
             \/ pending > 0 /\ pending' = pending - 1 /\ spc' \in {"poll", "arm"}
             \/ pending = 0 /\ pending' = 0 /\ spc' = "idle"
         ]_vars
    /\ ([]<>(spc = "idle") \/ []<><<Receive>>_vars)

\* the loop is back at its head after Ctrl+K, for which no arm exists, with
\* nothing left to read
C17_Witness == IsCtrl(CTRL_K) /\ spc = "poll" /\ pending = 0 /\ tpc = "idle"

\* the event in hand is a command other than on, off and set
PlainCommand == cur.kind = "cmd" /\ cur.cmd \notin {"on", "off", "set"}

\* C18: while help, clear, status, the empty line or an unknown command is
\* handled, no step changes enabled, the frequency or the timer rate, and
\* an unknown command is answered "unsupported command"; while on, off,
\* Ctrl+D or Ctrl+C is handled no step changes the frequency or the timer
\* rate; while set, Ctrl+S or Ctrl+X is handled no step changes enabled.  The
\* output level changes in the drive step of a tick handler and in no other
\* step.
C18_Frames ==
    [][ /\ spc \notin {"poll", "idle"} =>
             /\ PlainCommand => UNCHANGED <<blink_enabled, blink_freq, timer_hz>>
             /\ (OnEvent \/ OffEvent) => UNCHANGED <<blink_freq, timer_hz>>
             /\ (IsCmd("set") \/ IsCtrl(CTRL_S) \/ IsCtrl(CTRL_X)) =>
                    UNCHANGED blink_enabled
             /\ (IsCmd("foo") /\ spc' = "poll") =>
                    out' = <<"\r\n", "unsupported command", "\r\n", "#> ">>
        /\ led' # led => (tpc = "led" /\ tpc' = "clear")
        /\ (spc' # spc \/ cur' # cur \/ out' # out) => led' = led
      ]_vars

\* `set 100` was answered with the animation on and the output high
C18_Witness ==
    /\ IsCmd("set")
    /\ spc = "poll"
    /\ out = <<"\r\n", "#> ">>
    /\ blink_freq = MaxFreq
    /\ blink_enabled
    /\ led
    /\ tpc = "idle"

\* C19: from the read of enabled to the drive step the tick handler holds
\* the value enabled has; no step writes enabled while a tick handler is
\* inside; the drive step inverts the output when enabled is true at that
\* moment and forces it low when enabled is false at that moment.
C19_NoStaleEnabled ==
    /\ [](tpc = "led" => tick_e = blink_enabled)
    /\ [][ /\ (tpc # "idle" \/ tpc' # "idle") => blink_enabled' = blink_enabled
           /\ (tpc = "led" /\ tpc' = "clear") =>
                led' = (IF blink_enabled' THEN ~led ELSE FALSE)
         ]_vars

\* a tick handler that preempted `off` before its write has read enabled as
\* true and is about to drive the output
C19_Witness ==
    /\ tpc = "led"
    /\ tick_e
    /\ IsCmd("off")
    /\ spc = "arm"
    /\ blink_enabled

\* the drive step of a tick handler
DriveStep == tpc = "led" /\ tpc' = "clear"

\* C20: with enabled true the drive step of a tick handler leaves the output
\* at the opposite of the level it found, and that level is the one the
\* previous drive step left, since no step between two drive steps changes
\* the output, whatever serial_data handles in between.  Under fair ticks,
\* unless enabled is false again and again, the output is high again and
\* again and low again and again.
C20_Alternates ==
    /\ [][ /\ (DriveStep /\ blink_enabled) => led' = ~led
           /\ ~DriveStep => led' = led
         ]_vars
    /\ \/ []<>(~blink_enabled)
       \/ ([]<>led /\ []<>(~led))

\* with enabled true a tick handler that preempted `set` between its two
\* writes has driven the output from high to low
C20_Witness ==
    /\ tpc = "clear"
    /\ tick_e
    /\ blink_enabled
    /\ ~led
    /\ IsCmd("set")
    /\ spc = "lock"

====
